---- MODULE Spec2Model ----
(***************************************************************************)
(* A model of script.py: the text feature extractors (count_syllables,     *)
(* calculate_grade_level, contains_link, contains_mentions,                *)
(* calculate_sentiment), the three aggregators and the driver main.        *)
(*                                                                         *)
(* Python values are modelled as follows.                                  *)
(*   - a word is a sequence of one-character strings;                      *)
(*   - the outcome of a call that may raise is a record                    *)
(*     [raised |-> BOOLEAN, val |-> value or exception name];              *)
(*   - pandas' missing value is the marker NaN (read_csv turns the cell    *)
(*     texts "", "NA", "NaN", ... into it, so no loaded string equals it); *)
(*   - a float is an exact rational [num, den] (den > 0) or NaNFloat.      *)
(***************************************************************************)
EXTENDS Integers, Sequences, FiniteSets, TLC

VARIABLES
    csv,                     \* messages_1.csv: its header and its rows of cell texts
    punkt,                   \* whether nltk.download("punkt") left usable data
    order,                   \* the aggregator calls the driver has still to make
    pc,                      \* the driver's position
    data,                    \* the DataFrame of main (shared by the aggregators)
    global_stats,            \* result of calculate_global_stats
    channel_specific_stats,  \* result of calculate_channel_specific_stats
    individual_stats,        \* result of calculate_individual_stats
    stats_json,              \* result of json.dumps
    file,                    \* stats.json on disk
    error,                   \* the unhandled exception that ended the run
    word,                    \* argument of a count_syllables call
    syllables,               \* its outcome
    blob,                    \* the tokenization TextBlob gives a text
    grade                    \* outcome of calculate_grade_level on it

vars == <<csv, punkt, order, pc, data, global_stats,
          channel_specific_stats, individual_stats, stats_json, file, error,
          word, syllables, blob, grade>>

\* ------------------------------------------------------------------ bounds

MaxWordLen == 3      \* longest generated word
MaxSentences == 2    \* most sentences in a generated text
MaxWords == 2        \* most words in a generated sentence
MaxRows == 2         \* most rows in the input table

\* ------------------------------------------------------------ Python values

None == <<>>           \* Python's None; a value v that may be None is Some(v)
Some(v) == <<v>>
NaN == "NaN"

Ok(v) == [raised |-> FALSE, val |-> v]
Raise(e) == [raised |-> TRUE, val |-> e]

RECURSIVE SumSeq(_)
SumSeq(s) == IF s = <<>> THEN 0 ELSE Head(s) + SumSeq(Tail(s))

Max(a, b) == IF a >= b THEN a ELSE b

\* --------------------------------------------------------------- floats

NaNFloat == [num |-> 0, den |-> 0]
Float(n, d) == [num |-> n, den |-> d]

RECURSIVE GCD(_, _)
GCD(a, b) == IF b = 0 THEN a ELSE GCD(b, a % b)

Abs(n) == IF n < 0 THEN -n ELSE n

\* the fraction n / d (d > 0) in lowest terms
Reduced(n, d) == LET g == GCD(Abs(n), d) IN Float(n \div g, d \div g)

AddFloat(a, b) == Reduced(a.num * b.den + b.num * a.den, a.den * b.den)

RECURSIVE SumFloats(_)
SumFloats(s) == IF s = <<>> THEN Float(0, 1) ELSE AddFloat(Head(s), SumFloats(Tail(s)))

\* Series.mean(): NaN for an empty series
MeanFloats(s) ==
    IF s = <<>> THEN NaNFloat
    ELSE LET t == SumFloats(s) IN Reduced(t.num, t.den * Len(s))

\* ---------------------------------------------------------- count_syllables

\* str.lower on one character
ascii_uppercase == <<"A", "B", "C", "D", "E", "F", "G", "H", "I", "J", "K", "L", "M",
                     "N", "O", "P", "Q", "R", "S", "T", "U", "V", "W", "X", "Y", "Z">>
ascii_lowercase == <<"a", "b", "c", "d", "e", "f", "g", "h", "i", "j", "k", "l", "m",
                     "n", "o", "p", "q", "r", "s", "t", "u", "v", "w", "x", "y", "z">>

LowerChar(c) ==
    IF \E i \in 1..26 : ascii_uppercase[i] = c
    THEN ascii_lowercase[CHOOSE i \in 1..26 : ascii_uppercase[i] = c]
    ELSE c

lower(w) == [i \in 1..Len(w) |-> LowerChar(w[i])]

vowels == {"a", "e", "i", "o", "u", "y"}

\* the loop of lines 58-60: index runs over range(1, len(word)), which is
\* positions 2..Len(w) of the 1-based sequence
RECURSIVE SyllableLoop(_, _, _)
SyllableLoop(w, index, syllable_count) ==
    IF index > Len(w) THEN syllable_count
    ELSE SyllableLoop(w, index + 1,
             IF w[index] \in vowels /\ w[index - 1] \notin vowels
             THEN syllable_count + 1 ELSE syllable_count)

\* a mutant: without the guard of lines 63-64
count_syllables_noclamp(w0) ==
    IF w0 = <<>> THEN Raise("IndexError")
    ELSE LET w == lower(w0)
             c1 == IF w[1] \in vowels THEN 1 ELSE 0
             c2 == SyllableLoop(w, 2, c1)
         IN  Ok(IF w[Len(w)] = "e" THEN c2 - 1 ELSE c2)

count_syllables(w0) ==
    IF w0 = <<>> THEN Raise("IndexError")       \* word[0] on the empty string
    ELSE LET w == lower(w0)
             c1 == IF w[1] \in vowels THEN 1 ELSE 0
             c2 == SyllableLoop(w, 2, c1)
             c3 == IF w[Len(w)] = "e" THEN c2 - 1 ELSE c2
         IN  Ok(IF c3 = 0 THEN c3 + 1 ELSE c3)

\* ---------------------------------------------------- calculate_grade_level

\* A blob is what TextBlob makes of a text:
\*   [sentences |-> Raise(e)]                      blob.sentences raises
\*   [sentences |-> Ok(<<s1, ..., sn>>)]           each si is
\*        Raise(e)               sentence.words raises
\*        Ok(<<w1, ..., wk>>)    the words of the sentence


\* the syllable counts of the words of one sentence, or the first exception
RECURSIVE SyllablesOf(_)
SyllablesOf(ws) ==
    IF ws = <<>> THEN Ok(0)
    ELSE LET h == count_syllables(Head(ws))
             t == SyllablesOf(Tail(ws))
         IN  IF h.raised THEN h
             ELSE IF t.raised THEN t
             ELSE Ok(h.val + t.val)

\* the loop of lines 77-80 over the sentences: the totals, or the exception
RECURSIVE GradeLoop(_, _, _)
GradeLoop(ss, total_words, total_syllables) ==
    IF ss = <<>> THEN Ok([words |-> total_words, syllables |-> total_syllables])
    ELSE LET words == Head(ss)
         IN  IF words.raised THEN words
             ELSE LET y == SyllablesOf(words.val)
                  IN  IF y.raised THEN y
                      ELSE GradeLoop(Tail(ss), total_words + Len(words.val),
                                     total_syllables + y.val)

\* 0.39 * (W / S) + 11.8 * (Y / W) - 15.59 as an exact fraction; either
\* division by zero raises ZeroDivisionError
GradeFormula(W, S, Y) ==
    IF S = 0 \/ W = 0 THEN Raise("ZeroDivisionError")
    ELSE Ok(Reduced(39 * W * W + 1180 * Y * S - 1559 * S * W, 100 * S * W))

\* The result of calculate_grade_level and what it printed: value is None or
\* Some(float), printed is Some(the exception of line 92) or None.
GradeResult(v, p) == [value |-> v, printed |-> p]

\* a mutant: without the test of lines 82-83
calculate_grade_level_nocheck(b) ==
    IF b.sentences.raised THEN GradeResult(None, Some(b.sentences.val))
    ELSE LET sentences == b.sentences.val
             totals == GradeLoop(sentences, 0, 0)
         IN  IF totals.raised THEN GradeResult(None, Some(totals.val))
             ELSE LET g == GradeFormula(totals.val.words, Len(sentences),
                                        totals.val.syllables)
                  IN  IF g.raised THEN GradeResult(None, Some(g.val))
                      ELSE GradeResult(Some(g.val), None)

calculate_grade_level(b) ==
    IF b.sentences.raised THEN GradeResult(None, Some(b.sentences.val))
    ELSE LET sentences == b.sentences.val
             total_sentences == Len(sentences)
             totals == GradeLoop(sentences, 0, 0)
         IN  IF totals.raised THEN GradeResult(None, Some(totals.val))
             ELSE IF total_sentences = 0 \/ totals.val.words = 0
                  THEN GradeResult(None, None)
             ELSE LET g == GradeFormula(totals.val.words, total_sentences,
                                        totals.val.syllables)
                  IN  IF g.raised THEN GradeResult(None, Some(g.val))
                      ELSE GradeResult(Some(g.val), None)

\* ------------------------------------------------------------------ texts

\* The message text of the model and the characters of the strings the
\* extractors are given.
T_MSG == "I love this! see http://x.com @bob"

Chars(text) ==
    CASE text = "" -> <<>>
      [] text = "nan" -> <<"n", "a", "n">>
      [] text = T_MSG ->
           <<"I", " ", "l", "o", "v", "e", " ", "t", "h", "i", "s", "!", " ",
             "s", "e", "e", " ", "h", "t", "t", "p", ":", "/", "/", "x", ".",
             "c", "o", "m", " ", "@", "b", "o", "b">>

\* whether the characters of pat occur in s from position i on
StartsAt(s, i, pat) ==
    /\ i + Len(pat) - 1 <= Len(s)
    /\ \A k \in 1..Len(pat) : s[i + k - 1] = pat[k]

\* re.search(r"http[s]?://", message)
contains_link(message) ==
    LET s == Chars(message)
    IN  \E i \in 1..Len(s) :
            \/ StartsAt(s, i, <<"h", "t", "t", "p", ":", "/", "/">>)
            \/ StartsAt(s, i, <<"h", "t", "t", "p", "s", ":", "/", "/">>)

\* \w of the re module, on the characters of the modelled texts
IsWordChar(c) ==
    \/ \E i \in 1..26 : ascii_lowercase[i] = c \/ ascii_uppercase[i] = c
    \/ c \in {"0", "1", "2", "3", "4", "5", "6", "7", "8", "9", "_"}

\* re.search(r"@\w+", message)
contains_mentions(message) ==
    LET s == Chars(message)
    IN  \E i \in 1..Len(s) : s[i] = "@" /\ i < Len(s) /\ IsWordChar(s[i + 1])

\* TextBlob(text).sentiment of the modelled texts, in thousandths:
\* <<polarity, subjectivity>>
PatternSentiment(text) ==
    CASE text = T_MSG -> <<625, 600>>
      [] OTHER -> <<0, 0>>

\* calculate_sentiment: TextBlob(text) raises TypeError unless text is a str
calculate_sentiment(text) ==
    IF text = NaN THEN Raise("TypeError") ELSE Ok(PatternSentiment(text))

\* The sentences and words TextBlob finds in the modelled texts. Without the
\* punkt data every blob.sentences raises.
TextBlob(text, punkt_ok) ==
    IF ~punkt_ok THEN [sentences |-> Raise("MissingCorpusError")]
    ELSE CASE text = T_MSG ->
                [sentences |->
                    Ok(<< Ok(<< <<"I">>, <<"l", "o", "v", "e">>,
                                <<"t", "h", "i", "s">> >>),
                          Ok(<< <<"s", "e", "e">>, <<"h", "t", "t", "p">>,
                                <<"x", ".", "c", "o", "m">>, <<"b", "o", "b">> >>) >>)]
           [] OTHER -> [sentences |-> Ok(<<>>)]

\* ---------------------------------------------------------------- read_csv

Cols == {"Author", "Channel", "Content", "AuthorIsBot"}

\* the cell texts pandas reads as a missing value (its default na_values),
\* among the cell texts of the model
NaValues == {"", "NA"}

NumericCells == {"7"}

ParseCell(c) == IF c \in NaValues THEN NaN ELSE c

\* The dtype read_csv infers for a column of parsed cells xs.
InferDtype(xs) ==
    IF xs = <<>> THEN "object"
    ELSE IF \A i \in 1..Len(xs) : xs[i] \in NumericCells THEN "int64"
    ELSE IF \A i \in 1..Len(xs) : xs[i] \in NumericCells \cup {NaN} THEN "float64"
    ELSE "object"

\* pd.read_csv(file_path): a DataFrame
\*   [columns, rows, author_dtype], each row a record over Cols
read_csv(f) ==
    LET rows == [i \in 1..Len(f.rows) |->
                    [c \in Cols |-> ParseCell(f.rows[i][c])]]
    IN  [columns |-> f.header,
         rows |-> rows,
         author_dtype |-> InferDtype([i \in 1..Len(rows) |-> rows[i]["Author"]])]

\* ------------------------------------------------------- pandas helpers

\* data[c]: the column as a sequence, or KeyError
Column(df, c) ==
    IF c \in df.columns
    THEN Ok([i \in 1..Len(df.rows) |-> df.rows[i][c]])
    ELSE Raise("KeyError")

\* Series.value_counts().to_dict(): missing values are not counted
value_counts(xs) ==
    [k \in {xs[i] : i \in 1..Len(xs)} \ {NaN} |->
        Cardinality({i \in 1..Len(xs) : xs[i] = k})]

\* Series.unique(): the distinct values in order of first appearance, a
\* missing value among them
RECURSIVE unique(_)
unique(xs) ==
    IF xs = <<>> THEN <<>>
    ELSE LET front == unique(SubSeq(xs, 1, Len(xs) - 1))
             last == xs[Len(xs)]
         IN  IF \E i \in 1..Len(front) : front[i] = last THEN front
             ELSE Append(front, last)

RECURSIVE Without(_, _)
Without(xs, v) ==
    IF xs = <<>> THEN <<>>
    ELSE IF Head(xs) = v THEN Without(Tail(xs), v)
    ELSE <<Head(xs)>> \o Without(Tail(xs), v)

\* Series.nunique(): missing values are not counted
nunique(xs) == Cardinality({xs[i] : i \in 1..Len(xs)} \ {NaN})

\* data[data[c] == v]: a missing value equals nothing, itself included
RECURSIVE Filter(_, _, _)
Filter(rows, c, v) ==
    IF rows = <<>> THEN <<>>
    ELSE IF Head(rows)[c] # NaN /\ Head(rows)[c] = v
         THEN <<Head(rows)>> \o Filter(Tail(rows), c, v)
         ELSE Filter(Tail(rows), c, v)

RowsWhere(df, c, v) == Filter(df.rows, c, v)

\* Series.apply(f) where f may raise, given the outcomes of f on the
\* elements: the first exception, or the results
RECURSIVE Applied(_)
Applied(os) ==
    IF os = <<>> THEN Ok(<<>>)
    ELSE LET h == Head(os)
         IN  IF h.raised THEN h
             ELSE LET t == Applied(Tail(os))
                  IN  IF t.raised THEN t ELSE Ok(<<h.val>> \o t.val)

\* str(x) of a cell: of a missing value it is "nan"
str(x) == IF x = NaN THEN "nan" ELSE x

\* str(k) of an index key of the Author column: an int64 7 prints as "7", a
\* float64 7.0 as "7.0"
StrKey(k, dtype) == IF dtype = "float64" /\ k # NaN THEN k \o ".0" ELSE k

\* convert_dict: string keys, int values
convert_dict(d, dtype) ==
    [k \in {StrKey(j, dtype) : j \in DOMAIN d} |->
        d[CHOOSE j \in DOMAIN d : StrKey(j, dtype) = k]]

\* dict.get(key, default)
Get(d, key, default) == IF key \in DOMAIN d THEN d[key] ELSE default

Count(bs) == Cardinality({i \in 1..Len(bs) : bs[i]})

\* the mean of component k of a series of sentiment pairs (in thousandths)
MeanOf(sentiments, k) ==
    IF sentiments = <<>> THEN NaNFloat
    ELSE Reduced(SumSeq([i \in 1..Len(sentiments) |-> sentiments[i][k]]),
                 1000 * Len(sentiments))

\* ------------------------------------------------- calculate_global_stats

\* .fillna("").astype(str) on one cell
FillnaStr(x) == IF x = NaN THEN "" ELSE x

FillContent(df) ==
    [df EXCEPT !.rows = [i \in 1..Len(df.rows) |->
        [df.rows[i] EXCEPT !["Content"] = FillnaStr(@)]]]

\* The outcome of a call of an aggregator: what it returned or raised, and
\* the DataFrame it leaves behind.
Outcome(ret, df) == [ret |-> ret, data |-> df]

\* a mutant: the aggregator fills the Content of a copy of the frame
AssignedFrame_copy(df, filled) == df

\* The frame the caller holds after data["Content"] = ... of line 106: data
\* is the caller's own DataFrame, so the assignment is made in it.
AssignedFrame(df, filled) == filled

calculate_global_stats(df) ==
    LET author == Column(df, "Author")
        channel == Column(df, "Channel")
        is_bot == Column(df, "AuthorIsBot")
        content == Column(df, "Content")
    IN  IF author.raised THEN Outcome(author, df)
        ELSE IF channel.raised THEN Outcome(channel, df)
        ELSE IF is_bot.raised THEN Outcome(is_bot, df)
        ELSE IF content.raised THEN Outcome(content, df)
        ELSE
        LET num_posts == Len(df.rows)
            posts_by_author == value_counts(author.val)
            posts_by_channel == value_counts(channel.val)
            posts_by_human_vs_bot == value_counts(is_bot.val)
            num_links_posted ==
                Count([i \in 1..num_posts |-> contains_link(str(content.val[i]))])
            num_mentions ==
                Count([i \in 1..num_posts |-> contains_mentions(str(content.val[i]))])
            filled == FillContent(df)
            filled_content == Column(filled, "Content").val
            sentiments ==
                Applied([i \in 1..num_posts |-> calculate_sentiment(filled_content[i])])
        IN  IF sentiments.raised THEN Outcome(sentiments, filled)
            ELSE Outcome(Ok(
               [number_of_posts |-> num_posts,
                number_of_posts_by_author |->
                    convert_dict(posts_by_author, df.author_dtype),
                number_of_posts_by_channel |-> convert_dict(posts_by_channel, "object"),
                number_of_posts_by_human_vs_bot |->
                    [human |-> Get(posts_by_human_vs_bot, "False", 0),
                     bot |-> Get(posts_by_human_vs_bot, "True", 0)],
                number_of_links_posted |-> num_links_posted,
                number_of_mentions |-> num_mentions,
                global_sentiment |->
                    [average_polarity |-> MeanOf(sentiments.val, 1),
                     average_subjectivity |-> MeanOf(sentiments.val, 2)]]),
               AssignedFrame(df, filled))

\* --------------------------------------- calculate_channel_specific_stats

\* the two channel names of lines 138 and 143
LETTERLOOPS == "letterloops"
STORY_SHARING == "story-sharing"

\* len(x): a missing value is a float, which has no len()
PyLen(x) == IF x = NaN THEN Raise("TypeError") ELSE Ok(Len(Chars(x)))

\* TextBlob(x): raises TypeError unless x is a str
Blob(x, punkt_ok) ==
    IF x = NaN THEN [sentences |-> Raise("TypeError")] ELSE TextBlob(x, punkt_ok)

\* len(TextBlob(x).sentences) of line 148
SentenceCount(x, punkt_ok) ==
    LET ss == Blob(x, punkt_ok).sentences
    IN  IF ss.raised THEN ss ELSE Ok(Len(ss.val))

\* Series.dropna() on a series of floats and Nones
RECURSIVE dropna(_)
dropna(gs) ==
    IF gs = <<>> THEN <<>>
    ELSE IF Head(gs) = None THEN dropna(Tail(gs))
    ELSE <<Head(gs)>> \o dropna(Tail(gs))

calculate_channel_specific_stats(df, punkt_ok) ==
    LET channel == Column(df, "Channel")
        author == Column(df, "Author")
        content == Column(df, "Content")
    IN  IF channel.raised THEN Outcome(channel, df)
        ELSE IF author.raised THEN Outcome(author, df)
        ELSE IF content.raised THEN Outcome(content, df)
        ELSE
        LET letterloops_data == RowsWhere(df, "Channel", LETTERLOOPS)
            num_letterloops_players ==
                nunique([i \in 1..Len(letterloops_data) |-> letterloops_data[i]["Author"]])
            story_sharing_data == RowsWhere(df, "Channel", STORY_SHARING)
            story_content ==
                [i \in 1..Len(story_sharing_data) |-> story_sharing_data[i]["Content"]]
            num_stories_told == Len(story_sharing_data)
            lengths == Applied([i \in 1..num_stories_told |-> PyLen(story_content[i])])
            sentence_counts ==
                Applied([i \in 1..num_stories_told |->
                            SentenceCount(story_content[i], punkt_ok)])
            grade_levels ==
                [i \in 1..num_stories_told |->
                    calculate_grade_level(Blob(story_content[i], punkt_ok)).value]
        IN  IF lengths.raised THEN Outcome(lengths, df)
            ELSE IF sentence_counts.raised THEN Outcome(sentence_counts, df)
            ELSE LET defined == dropna(grade_levels)
                 IN  Outcome(Ok(
               ("LetterLoops" :>
                    [number_of_players |-> num_letterloops_players,
                     number_of_puzzles_solved |-> Len(letterloops_data)]
                @@ "Story Sharing" :>
                    [number_of_stories_told |-> num_stories_told,
                     length_of_stories_in_characters |-> SumSeq(lengths.val),
                     length_of_stories_in_sentences |-> SumSeq(sentence_counts.val),
                     average_grade_level |->
                        MeanFloats([i \in 1..Len(defined) |-> defined[i][1]])])),
               df)

\* ---------------------------------------------- calculate_individual_stats

\* the body of the loop of lines 173-188 for one author: the entry, or the
\* exception raised on the way
IndividualEntry(df, author) ==
    LET author_data == RowsWhere(df, "Author", author)
        content == Column(df, "Content")
        channel == Column(df, "Channel")
        sentiments_by_author ==
            Applied([i \in 1..Len(author_data) |->
                        calculate_sentiment(author_data[i]["Content"])])
    IN  IF content.raised THEN content
        ELSE IF sentiments_by_author.raised THEN sentiments_by_author
        ELSE IF channel.raised THEN channel
        ELSE Ok([key |-> author,
                 channels_posted_to |->
                    unique([i \in 1..Len(author_data) |-> author_data[i]["Channel"]]),
                 average_sentiment |->
                    [average_polarity |-> MeanOf(sentiments_by_author.val, 1),
                     average_subjectivity |-> MeanOf(sentiments_by_author.val, 2)]])

\* a mutant: the authors without the missing value
AuthorsOf_dropna(xs) == unique(Without(xs, NaN))

\* data["Author"].unique()
AuthorsOf(xs) == unique(xs)

\* individual_stats is a dict: here the sequence of its entries in insertion
\* order, each with its key
calculate_individual_stats(df) ==
    LET author == Column(df, "Author")
    IN  IF author.raised THEN Outcome(author, df)
        ELSE LET authors == AuthorsOf(author.val)
             IN  Outcome(Applied([i \in 1..Len(authors) |->
                                     IndividualEntry(df, authors[i])]), df)

\* ------------------------------------------------------------- json.dumps

\* The key json.dumps writes for a key of individual_stats: a str as it is,
\* a float (a missing value is one) by its repr; a numpy int64 is no key
\* json accepts.
JsonKey(k, dtype) ==
    IF dtype = "int64" THEN Raise("TypeError") ELSE Ok(StrKey(k, dtype))

JsonEntry(e, dtype) ==
    LET k == JsonKey(e.key, dtype)
    IN  IF k.raised THEN k ELSE Ok([e EXCEPT !.key = k.val])

json_dumps(all_stats, dtype) ==
    LET entries == all_stats.individual_stats
        individual == Applied([i \in 1..Len(entries) |-> JsonEntry(entries[i], dtype)])
    IN  IF individual.raised THEN individual
        ELSE Ok([all_stats EXCEPT !.individual_stats = individual.val])

\* ------------------------------------------------------------------- main

MainOrder == <<"global", "channel", "individual">>

AuthorCells == {"A", "7", "NA"}
ChannelCells == {LETTERLOOPS, STORY_SHARING}
ContentCells == {"", T_MSG}
IsBotCells == {"True", "False"}

\* the cells a row can hold under a header: a column the header lacks has none
CellsOf(header, c, cells) == IF c \in header THEN cells ELSE {""}

Headers == {Cols} \cup {Cols \ {c} : c \in Cols}

RowsOf(header, flags) ==
    [Author : CellsOf(header, "Author", AuthorCells),
     Channel : CellsOf(header, "Channel", ChannelCells),
     Content : CellsOf(header, "Content", ContentCells),
     AuthorIsBot : CellsOf(header, "AuthorIsBot", flags)]

Orders == {<<"global", "channel", "individual">>, <<"global", "individual", "channel">>,
           <<"channel", "global", "individual">>, <<"channel", "individual", "global">>,
           <<"individual", "global", "channel">>, <<"individual", "channel", "global">>}

\* the variables of the extractor runs, at rest
InitIdle ==
    /\ word = <<>>
    /\ syllables = None
    /\ blob = [sentences |-> Ok(<<>>)]
    /\ grade = None

\* a run of the script on a file whose AuthorIsBot cells are drawn from flags
InitRun(flags) ==
    /\ \E h \in Headers, n \in 0..MaxRows :
          \E rs \in [1..n -> RowsOf(h, flags)] : csv = [header |-> h, rows |-> rs]
    /\ punkt \in BOOLEAN
    /\ pc = "read_csv"
    /\ data = None
    /\ global_stats = None
    /\ channel_specific_stats = None
    /\ individual_stats = None
    /\ stats_json = None
    /\ file = None
    /\ error = None
    /\ InitIdle

Init == InitRun(IsBotCells) /\ order = MainOrder

\* line 195
Load ==
    /\ pc = "read_csv"
    /\ data' = Some(read_csv(csv))
    /\ pc' = "aggregate"
    /\ UNCHANGED <<csv, punkt, order, global_stats, channel_specific_stats,
                   individual_stats, stats_json, file, error,
                   word, syllables, blob, grade>>

\* what a call of an aggregator leaves in the driver: the next position and
\* the exception, if one was raised
AfterCall(o) ==
    /\ data' = Some(o.data)
    /\ IF o.ret.raised
       THEN pc' = "failed" /\ error' = Some(o.ret.val) /\ order' = order
       ELSE /\ pc' = IF Tail(order) = <<>> THEN "dumps" ELSE "aggregate"
            /\ error' = error
            /\ order' = Tail(order)

Ready(name) == pc = "aggregate" /\ order # <<>> /\ Head(order) = name

\* line 197
GlobalStats ==
    /\ Ready("global")
    /\ LET o == calculate_global_stats(data[1])
       IN  /\ AfterCall(o)
           /\ global_stats' = IF o.ret.raised THEN global_stats ELSE Some(o.ret.val)
    /\ UNCHANGED <<csv, punkt, channel_specific_stats, individual_stats,
                   stats_json, file, word, syllables, blob, grade>>

\* line 198
ChannelStats ==
    /\ Ready("channel")
    /\ LET o == calculate_channel_specific_stats(data[1], punkt)
       IN  /\ AfterCall(o)
           /\ channel_specific_stats' =
                  IF o.ret.raised THEN channel_specific_stats ELSE Some(o.ret.val)
    /\ UNCHANGED <<csv, punkt, global_stats, individual_stats,
                   stats_json, file, word, syllables, blob, grade>>

\* line 199
IndividualStats ==
    /\ Ready("individual")
    /\ LET o == calculate_individual_stats(data[1])
       IN  /\ AfterCall(o)
           /\ individual_stats' =
                  IF o.ret.raised THEN individual_stats ELSE Some(o.ret.val)
    /\ UNCHANGED <<csv, punkt, global_stats, channel_specific_stats,
                   stats_json, file, word, syllables, blob, grade>>

\* lines 201-207
Dumps ==
    /\ pc = "dumps"
    /\ LET all_stats == [global_stats |-> global_stats[1],
                         channel_specific_stats |-> channel_specific_stats[1],
                         individual_stats |-> individual_stats[1]]
           j == json_dumps(all_stats, data[1].author_dtype)
       IN  IF j.raised
           THEN pc' = "failed" /\ error' = Some(j.val) /\ stats_json' = stats_json
           ELSE pc' = "write" /\ error' = error /\ stats_json' = Some(j.val)
    /\ UNCHANGED <<csv, punkt, order, data, global_stats, channel_specific_stats,
                   individual_stats, file, word, syllables, blob, grade>>

\* a mutant: the file is written in a finally clause, after a failure too
WriteFile_finally ==
    /\ pc \in {"write", "failed"}
    /\ file = None
    /\ file' = IF pc = "write" THEN stats_json
               ELSE Some([global_stats |-> global_stats,
                          channel_specific_stats |-> channel_specific_stats,
                          individual_stats |-> individual_stats])
    /\ pc' = IF pc = "write" THEN "done" ELSE pc
    /\ UNCHANGED <<csv, punkt, order, data, global_stats, channel_specific_stats,
                   individual_stats, stats_json, error, word, syllables, blob, grade>>

\* lines 210-214
WriteFile ==
    /\ pc = "write"
    /\ file' = stats_json
    /\ pc' = "done"
    /\ UNCHANGED <<csv, punkt, order, data, global_stats, channel_specific_stats,
                   individual_stats, stats_json, error, word, syllables, blob, grade>>

Next == Load \/ GlobalStats \/ ChannelStats \/ IndividualStats \/ Dumps \/ WriteFile

Spec == Init /\ [][Next]_vars

\* the script on files in which the AuthorIsBot flag of a row may be missing
InitMissingFlag == InitRun(IsBotCells \cup {""}) /\ order = MainOrder

SpecMissingFlag == InitMissingFlag /\ [][Next]_vars

\* the three aggregators called in any order on the loaded table
InitAnyOrder == InitRun(IsBotCells) /\ order \in Orders

SpecAnyOrder == InitAnyOrder /\ [][Next]_vars

\* -------------------------------------------------- the extractors alone

\* the script at rest, while an extractor is run on its own
InitNoRun ==
    /\ csv = [header |-> Cols, rows |-> <<>>]
    /\ punkt = TRUE
    /\ order = MainOrder
    /\ pc = "idle"
    /\ data = None
    /\ global_stats = None
    /\ channel_specific_stats = None
    /\ individual_stats = None
    /\ stats_json = None
    /\ file = None
    /\ error = None

Alphabet == {"a", "e", "y", "b", "E"}

Words == UNION {[1..n -> Alphabet] : n \in 0..MaxWordLen}
             \cup {<<"c", "a", "k", "e">>, <<"h", "e", "l", "l", "o">>}

InitSyllables ==
    /\ InitNoRun
    /\ word \in Words
    /\ syllables = None
    /\ blob = [sentences |-> Ok(<<>>)]
    /\ grade = None

\* a call count_syllables(word)
CountSyllables ==
    /\ syllables = None
    /\ syllables' = Some(count_syllables(word))
    /\ UNCHANGED <<csv, punkt, order, pc, data, global_stats, channel_specific_stats,
                   individual_stats, stats_json, file, error, word, blob, grade>>

SpecSyllables == InitSyllables /\ [][CountSyllables]_vars

\* the words of the generated texts: the empty word is one no tokenizer
\* should give, and count_syllables raises on it
GradeWords == {<<>>, <<"c", "a", "k", "e">>, <<"h", "e", "l", "l", "o">>}

SentenceOutcomes ==
    {Raise("LookupError")} \cup
    {Ok(ws) : ws \in UNION {[1..n -> GradeWords] : n \in 0..MaxWords}}

Blobs ==
    {[sentences |-> Raise("MissingCorpusError")]} \cup
    {[sentences |-> Ok(ss)] :
        ss \in UNION {[1..n -> SentenceOutcomes] : n \in 0..MaxSentences}}

InitGrade ==
    /\ InitNoRun
    /\ word = <<>>
    /\ syllables = None
    /\ blob \in Blobs
    /\ grade = None

\* a call calculate_grade_level(text), blob being what TextBlob makes of text
GradeLevel ==
    /\ grade = None
    /\ grade' = Some(calculate_grade_level(blob))
    /\ UNCHANGED <<csv, punkt, order, pc, data, global_stats, channel_specific_stats,
                   individual_stats, stats_json, file, error, word, syllables, blob>>

SpecGrade == InitGrade /\ [][GradeLevel]_vars

\* ----------------------------------------------------------------- claims

RECURSIVE SumOver(_, _)
SumOver(d, ks) ==
    IF ks = {} THEN 0
    ELSE LET k == CHOOSE x \in ks : TRUE IN d[k] + SumOver(d, ks \ {k})

\* the table as loaded
Loaded == read_csv(csv)

Rows(df) == 1..Len(df.rows)

\* an aggregator raised
AggregatorFailed == pc = "failed" /\ order # <<>>

\* C1: in the report, number_of_posts_by_human_vs_bot.human + .bot equals
\* number_of_posts, also for tables in which rows lack the AuthorIsBot flag.
C1_HumanPlusBotIsTotal ==
    global_stats # None =>
        LET g == global_stats[1]
        IN  g.number_of_posts_by_human_vs_bot.human
              + g.number_of_posts_by_human_vs_bot.bot = g.number_of_posts

\* C2: the values of number_of_posts_by_author sum to number_of_posts: every
\* loaded row is tallied under exactly one author key.
C2_AuthorCountsSumToTotal ==
    global_stats # None =>
        LET g == global_stats[1]
        IN  SumOver(g.number_of_posts_by_author, DOMAIN g.number_of_posts_by_author)
              = g.number_of_posts

\* what the three aggregators return when called in the order of main
MainGlobal == calculate_global_stats(Loaded)
MainChannel == calculate_channel_specific_stats(MainGlobal.data, punkt)
MainIndividual == calculate_individual_stats(MainChannel.data)

MainCompletes ==
    ~MainGlobal.ret.raised /\ ~MainChannel.ret.raised /\ ~MainIndividual.ret.raised

\* C3: on every table on which the three aggregators complete in the order
\* of main, they complete in each of the six orders, and give the same three
\* report sections.
C3_AnyOrderSameReport ==
    MainCompletes =>
        /\ ~AggregatorFailed
        /\ pc = "dumps" =>
              /\ global_stats = Some(MainGlobal.ret.val)
              /\ channel_specific_stats = Some(MainChannel.ret.val)
              /\ individual_stats = Some(MainIndividual.ret.val)

\* C4: no aggregator changes an attribute of a row: the table main holds
\* is at every moment the table as loaded.
C4_RowsImmutable == data # None => data[1] = Loaded

\* C5: stats.json is written only once the three aggregators and json.dumps
\* have all succeeded; a run that fails leaves no file.
C5_NoPartialOutput ==
    /\ file # None =>
          /\ pc = "done"
          /\ error = None
          /\ global_stats # None
          /\ channel_specific_stats # None
          /\ individual_stats # None
          /\ stats_json # None
          /\ file = stats_json
    /\ pc = "failed" => file = None

\* a run in which the second aggregator raised after the first had returned
C5_Witness ==
    /\ pc = "failed"
    /\ global_stats # None
    /\ channel_specific_stats = None
    /\ file = None

\* C6: individual_stats has exactly one key per distinct Author value of the
\* loaded rows (a missing Author being one value): as many keys as distinct
\* authors, each key the author of a row, each row's author a key.
C6_OneKeyPerAuthor ==
    individual_stats # None =>
        LET entries == individual_stats[1]
            authors == {Loaded.rows[i]["Author"] : i \in Rows(Loaded)}
        IN  /\ Len(entries) = Cardinality(authors)
            /\ \A i \in 1..Len(entries) : entries[i].key \in authors
            /\ \A a \in authors : \E i \in 1..Len(entries) : entries[i].key = a

\* two rows of one author and one row of another give two keys
C6_Witness ==
    /\ individual_stats # None
    /\ Len(csv.rows) = 2
    /\ csv.rows[1]["Author"] = csv.rows[2]["Author"]
    /\ Len(individual_stats[1]) = 1

\* the number of vowel-group starts of a lowercased word
VowelGroups(w) ==
    Cardinality({i \in 1..Len(w) :
                    w[i] \in vowels /\ (i = 1 \/ w[i - 1] \notin vowels)})

\* C7: for a non-empty word count_syllables returns max(1, g - e), g the
\* number of vowel-group starts of the lowercased word and e = 1 if it ends
\* in "e", else 0: "cake" gives 1 and "hello" gives 2.
C7_SyllablesFormula ==
    (syllables # None /\ word # <<>>) =>
        LET w == [i \in 1..Len(word) |-> LowerChar(word[i])]
            g == VowelGroups(w)
            e == IF w[Len(w)] = "e" THEN 1 ELSE 0
        IN  /\ syllables[1] = Ok(Max(1, g - e))
            /\ word = <<"c", "a", "k", "e">> => syllables[1] = Ok(1)
            /\ word = <<"h", "e", "l", "l", "o">> => syllables[1] = Ok(2)

\* a word of one vowel group that ends in "e": the count is raised from 0 to 1
C7_Witness == word = <<"b", "E">> /\ syllables = Some(Ok(1))

\* calculate_grade_level printed an exception for a story-channel message
StoryMessageFailed ==
    /\ data # None
    /\ \E i \in Rows(data[1]) :
          /\ data[1].rows[i]["Channel"] = STORY_SHARING
          /\ calculate_grade_level(Blob(data[1].rows[i]["Content"], punkt)).printed
                # None

\* C8: a message whose tokenization or analysis fails gives None in
\* calculate_grade_level, and never aborts calculate_channel_specific_stats.
C8_FailureNeverAborts ==
    StoryMessageFailed =>
        ~(AggregatorFailed /\ Head(order) = "channel")

\* the sentences and words of a blob whose tokenization raised nothing
Tokenized(b) ==
    /\ ~b.sentences.raised
    /\ \A i \in 1..Len(b.sentences.val) : ~b.sentences.val[i].raised

SentenceTotal(b) == Len(b.sentences.val)

WordTotal(b) ==
    SumSeq([i \in 1..Len(b.sentences.val) |-> Len(b.sentences.val[i].val)])

\* C9: on a text of zero sentences or zero words calculate_grade_level
\* returns None without dividing (no ZeroDivisionError is caught and
\* printed); it returns a number only when both totals are positive.
C9_AbsentWithoutDividing ==
    grade # None =>
        /\ (Tokenized(blob) /\ (SentenceTotal(blob) = 0 \/ WordTotal(blob) = 0)) =>
              grade[1] = GradeResult(None, None)
        /\ grade[1].value # None =>
              Tokenized(blob) /\ SentenceTotal(blob) > 0 /\ WordTotal(blob) > 0

\* a text of one sentence and no word
C9_Witness ==
    /\ grade # None
    /\ Tokenized(blob)
    /\ SentenceTotal(blob) = 1
    /\ WordTotal(blob) = 0
    /\ grade[1].value = None

\* C10: in main calculate_global_stats has run, and has replaced every
\* missing Content by a string, whenever a later aggregator is about to read
\* the Content of the rows.
C10_ContentFilledBeforeRead ==
    (pc = "aggregate" /\ order # <<>> /\ Head(order) \in {"channel", "individual"}) =>
        /\ global_stats # None
        /\ \A i \in Rows(data[1]) : data[1].rows[i]["Content"] # NaN

\* the channel aggregator about to read a story whose Content was missing
C10_Witness ==
    /\ pc = "aggregate"
    /\ order # <<>>
    /\ Head(order) = "channel"
    /\ \E i \in Rows(Loaded) :
          /\ Loaded.rows[i]["Content"] = NaN
          /\ Loaded.rows[i]["Channel"] = STORY_SHARING

====
